---------------------------- MODULE Spec2Model ----------------------------
(***************************************************************************)
(* img_dup: the hashing session (SessionBuilder::process_local and         *)
(* SessionBuilder::process_multithread) and the duplicate-clustering       *)
(* engine behind find_uniques, of src/common/src/lib.rs.                   *)
(*                                                                         *)
(* lib.rs declares `mod compare; mod img; mod threaded;` and uses          *)
(* ImageManager, ImgStatus, ImgResults and ThreadedSession from them.      *)
(* Those modules are modelled from the design document (sections 3, 4.1,   *)
(* 4.2 and 5); what lib.rs itself does is modelled from lib.rs.            *)
(*                                                                         *)
(* Several specifications share the module: Spec runs hashing sessions one *)
(* after another over one path list and clusters what they deliver,        *)
(* SpecFair is one such session under fair scheduling, SpecCluster drives  *)
(* one clustering engine, SpecSearch one ImageSearch.                      *)
(***************************************************************************)
EXTENDS Integers, Sequences, FiniteSets

(* ------------------------------ bounds -------------------------------- *)

\* longest input path list
MaxLen == 3

\* width of a hash value in bits
HashBits == 3

\* longest sequence of images handed to one clustering engine
MaxImages == 3

(* ------------------------- program constants -------------------------- *)

DEAFULT_HASH_SIZE == 16

DEFAULT_THRESHOLD == 2

DEFAULT_HASH_TYPE == "Gradient"

(* ------------------------------- state -------------------------------- *)

VARIABLES
    builder,     \* the SessionBuilder: [images, hash_size, hash_type]
    outcome,     \* the hasher adapter's outcome for each path (the files)
    pc,          \* "idle" | "local" | "multi" | "done" | "panicked" | "off"
    request,     \* the thread count the caller asked process_multithread for
    cfg,         \* the session: [mode, threads, workers, settings]
    results,     \* process_local's `results`; the ResultSet once pc = "done"
    cursor,      \* process_local: position of results.iter_mut()
    batch,       \* worker -> original indices it still has to hash
    chan,        \* the workers -> collector channel, oldest first
    slots,       \* the collector's buffer, by original index
    received,    \* completions the collector has taken from the channel
    arrival,     \* the indices of those completions, in the order taken
    spawned,     \* worker threads spawned by the session
    hashCount,   \* original index -> hasher invocations in this session
    prev,        \* the session delivered before this one, or NoSession
    threshold,   \* ImageManager.threshold
    groups,      \* ImageManager: the groups, in creation order
    added,       \* the images handed to the engine so far, in order
    finalized,   \* into_vec has consumed the engine
    uniques,     \* Some([images, groups]) of a find_uniques call, or None
    fs,          \* the directory searched: [readable, top, deep]
    search,      \* the ImageSearch: [recursive, exts]
    found        \* Some(what ImageSearch::search returned), or None

sessionVars == <<builder, outcome, pc, request, cfg, results, cursor, batch,
                 chan, slots, received, arrival, spawned, hashCount, prev>>

clusterVars == <<threshold, groups, added, finalized, uniques>>

searchVars == <<fs, search, found>>

vars == <<sessionVars, clusterVars, searchVars>>

(* ------------------------------ helpers ------------------------------- *)

Min(S) == CHOOSE x \in S : \A y \in S : x <= y

Max(S) == CHOOSE x \in S : \A y \in S : x >= y

\* Option<T>: None is the empty set, Some(x) the set of x alone
None == {}

Some(x) == {x}

unwrap(opt) == CHOOSE x \in opt : TRUE

NoSession == [mode |-> "none", workers |-> 0, results |-> << >>]

NoSettings == [hash_size |-> 0, hash_type |-> ""]

NoCfg == [mode |-> "none", threads |-> None, workers |-> 0, settings |-> NoSettings]

(* ----------------------- ImgStatus (mod img) -------------------------- *)

\* Image (mod img): a path and its hash value
Image(p, h) == [path |-> p, hash |-> h]

Unhashed(p) == [tag |-> "Unhashed", path |-> p, hash |-> None, reason |-> ""]

Hashed(img) ==
    [tag |-> "Hashed", path |-> img.path, hash |-> Some(img.hash), reason |-> ""]

Failed(p, r) == [tag |-> "Failed", path |-> p, hash |-> None, reason |-> r]

\* all hash values of HashBits bits
HashValues == 0 .. (2 ^ HashBits - 1)

\* the reason a Failed status carries when the file does not decode
DecodeFailure == "decode"

\* the hasher adapter's outcomes sessions are run with: the file does not
\* decode (None), or it hashes to one of two values
SessionOutcomes == {None, Some(0), Some(2 ^ HashBits - 1)}

\* ImgStatus::hash(settings): an Unhashed status becomes Hashed or Failed,
\* as the hasher adapter decides for its path; any other status stays
ImgStatus_hash(st, settings, out) ==
    IF st.tag # "Unhashed" THEN st
    ELSE IF out[st.path] = None
         THEN Failed(st.path, DecodeFailure)
         ELSE Hashed(Image(st.path, unwrap(out[st.path])))

\* ImgResults::from_statuses: the ResultSet, one entry per status, in order
ImgResults_from_statuses(statuses) ==
    [i \in 1 .. Len(statuses) |-> statuses[i]]

(* --------------------------- SessionBuilder --------------------------- *)

\* the path of the file at position i of a path list
PathAt(i) == 100 + i

PathsOf(n) == {PathAt(i) : i \in 1 .. n}

\* the path lists of n files: the files in ascending and in descending order
\* of their paths
PathLists(n) ==
    {[i \in 1 .. n |-> PathAt(i)], [i \in 1 .. n |-> PathAt(n + 1 - i)]}

\* SessionBuilder::from_images
from_images(imgs) ==
    [images |-> imgs, hash_size |-> DEAFULT_HASH_SIZE,
     hash_type |-> DEFAULT_HASH_TYPE]

\* SessionBuilder::recombine
recombine(self) ==
    <<[hash_size |-> self.hash_size, hash_type |-> self.hash_type],
      self.images>>

ZeroCounts(n) == [i \in 1 .. n |-> 0]

NoBatches == [w \in {} |-> {}]

\* the cluster variables of a module state in which no engine runs
ClusterIdle ==
    /\ threshold = DEFAULT_THRESHOLD
    /\ groups = << >>
    /\ added = << >>
    /\ finalized = FALSE
    /\ uniques = None

\* the search variables of a module state in which nothing is searched
NoFs == [readable |-> TRUE, top |-> << >>, deep |-> << >>]

NoSearch == [recursive |-> FALSE, exts |-> << >>]

SearchIdle ==
    /\ fs = NoFs
    /\ search = NoSearch
    /\ found = None

\* a SessionBuilder over a path list of at most MaxLen files, each file with
\* its hasher outcome
Init ==
    /\ \E n \in 0 .. MaxLen :
          /\ \E imgs \in PathLists(n) : builder = from_images(imgs)
          /\ outcome \in [PathsOf(n) -> SessionOutcomes]
          /\ hashCount = ZeroCounts(n)
    /\ pc = "idle"
    /\ request = None
    /\ cfg = NoCfg
    /\ results = << >>
    /\ cursor = 1
    /\ batch = NoBatches
    /\ chan = << >>
    /\ slots = << >>
    /\ received = 0
    /\ arrival = << >>
    /\ spawned = 0
    /\ prev = NoSession
    /\ ClusterIdle
    /\ SearchIdle

(* ------------------ SessionBuilder::process_local --------------------- *)

\* process_local_collect with the paths taken back to front
process_local_collect_reversed ==
    /\ pc = "idle"
    /\ LET rc == recombine(builder)
       IN  /\ results' = [i \in 1 .. Len(rc[2]) |->
                            Unhashed(rc[2][Len(rc[2]) + 1 - i])]
           /\ cfg' = [mode |-> "local", threads |-> None, workers |-> 0,
                      settings |-> rc[1]]
    /\ cursor' = 1
    /\ pc' = "local"
    /\ UNCHANGED <<builder, outcome, request, batch, chan, slots, received,
                   arrival, spawned, hashCount, prev, clusterVars, searchVars>>

\* lib.rs 178-182: recombine, then every path becomes an Unhashed status
process_local_collect ==
    /\ pc = "idle"
    /\ LET rc == recombine(builder)
       IN  /\ results' = [i \in 1 .. Len(rc[2]) |-> Unhashed(rc[2][i])]
           /\ cfg' = [mode |-> "local", threads |-> None, workers |-> 0,
                      settings |-> rc[1]]
    /\ cursor' = 1
    /\ pc' = "local"
    /\ UNCHANGED <<builder, outcome, request, batch, chan, slots, received,
                   arrival, spawned, hashCount, prev, clusterVars, searchVars>>

\* process_local_hash with the map adapter never driven: the iterator is
\* walked and the closure does not run
process_local_hash_lazy ==
    /\ pc = "local"
    /\ cursor <= Len(results)
    /\ cursor' = cursor + 1
    /\ UNCHANGED <<builder, outcome, pc, request, cfg, results, batch, chan,
                   slots, received, arrival, spawned, hashCount, prev,
                   clusterVars, searchVars>>

\* process_local_hash driven by .next() in place of .last(): the closure runs
\* for the first status alone
process_local_hash_first_only ==
    /\ pc = "local"
    /\ cursor <= Len(results)
    /\ results' = [results EXCEPT
                     ![cursor] = ImgStatus_hash(@, cfg.settings, outcome)]
    /\ hashCount' = [hashCount EXCEPT ![cursor] = @ + 1]
    /\ cursor' = Len(results) + 1
    /\ UNCHANGED <<builder, outcome, pc, request, cfg, batch, chan, slots,
                   received, arrival, spawned, prev, clusterVars, searchVars>>

\* process_local_hash with a failed hash unwrapped: the session panics
process_local_hash_abort ==
    /\ pc = "local"
    /\ cursor <= Len(results)
    /\ results' = [results EXCEPT
                     ![cursor] = ImgStatus_hash(@, cfg.settings, outcome)]
    /\ hashCount' = [hashCount EXCEPT ![cursor] = @ + 1]
    /\ cursor' = cursor + 1
    /\ pc' = IF results'[cursor].tag = "Failed" THEN "panicked" ELSE pc
    /\ UNCHANGED <<builder, outcome, request, cfg, batch, chan, slots,
                   received, arrival, spawned, prev, clusterVars, searchVars>>

\* lib.rs 184: one step of results.iter_mut().map(|img| img.hash(settings)),
\* which .last() drives to the end
process_local_hash ==
    /\ pc = "local"
    /\ cursor <= Len(results)
    /\ results' = [results EXCEPT
                     ![cursor] = ImgStatus_hash(@, cfg.settings, outcome)]
    /\ hashCount' = [hashCount EXCEPT ![cursor] = @ + 1]
    /\ cursor' = cursor + 1
    /\ UNCHANGED <<builder, outcome, pc, request, cfg, batch, chan, slots,
                   received, arrival, spawned, prev, clusterVars, searchVars>>

\* process_local_return taking the value of .last() as a status it must have
process_local_return_unwraps_last ==
    /\ pc = "local"
    /\ cursor > Len(results)
    /\ results' = ImgResults_from_statuses(results)
    /\ pc' = IF results = << >> THEN "panicked" ELSE "done"
    /\ UNCHANGED <<builder, outcome, request, cfg, cursor, batch, chan, slots,
                   received, arrival, spawned, hashCount, prev, clusterVars, searchVars>>

\* lib.rs 186: the iterator is exhausted; ImgResults::from_statuses(results)
process_local_return ==
    /\ pc = "local"
    /\ cursor > Len(results)
    /\ results' = ImgResults_from_statuses(results)
    /\ pc' = "done"
    /\ UNCHANGED <<builder, outcome, request, cfg, cursor, batch, chan, slots,
                   received, arrival, spawned, hashCount, prev, clusterVars, searchVars>>

process_local ==
    \/ process_local_collect
    \/ process_local_hash
    \/ process_local_return

(* ------------------- ThreadedSession (mod threaded) ------------------- *)

\* the thread counts sessions are asked for; 0 is the rejected one
ThreadCounts == {0, 1, 2, 8}

\* what num_cpus reports when no thread count is given
CpuCounts == {0, 2}

\* the ways n units of work can be split over t workers. Workers run the
\* same code, so a split is taken up to the naming of the workers: unit 1
\* goes to worker 1, and a unit goes to a worker already in use or to the
\* next unused one.
Assignments(n, t) ==
    {f \in [1 .. n -> 1 .. Min({n, t})] :
        \A i \in 1 .. n : f[i] <= 1 + Max({0} \cup {f[j] : j \in 1 .. (i - 1)})}

\* a unit of work: a path tagged with its original index
Unit(i, p) == [index |-> i, path |-> p]

\* the thread count is resolved; 0 panics before anything is spawned,
\* otherwise the units are split over the workers and the workers and the
\* collector start
ThreadedSession_process_multithread(threads, settings, imgs) ==
    /\ pc = "idle"
    /\ \E cpus \in CpuCounts :
          LET t == IF threads = None THEN cpus ELSE unwrap(threads)
          IN  IF t = 0
              THEN /\ pc' = "panicked"
                   /\ cfg' = [mode |-> "multi", threads |-> threads,
                              workers |-> 0, settings |-> settings]
                   /\ UNCHANGED <<batch, chan, slots, received, arrival, spawned>>
              ELSE /\ pc' = "multi"
                   /\ cfg' = [mode |-> "multi", threads |-> threads,
                              workers |-> t, settings |-> settings]
                   /\ \E f \in Assignments(Len(imgs), t) :
                         batch' = [w \in 1 .. t |->
                                     {Unit(i, imgs[i]) : i \in {j \in 1 .. Len(imgs) : f[j] = w}}]
                   /\ chan' = << >>
                   /\ slots' = [i \in 1 .. Len(imgs) |-> Unhashed(imgs[i])]
                   /\ received' = 0
                   /\ arrival' = << >>
                   /\ spawned' = t
    /\ UNCHANGED <<builder, outcome, results, cursor, hashCount, prev, clusterVars, searchVars>>

\* worker_hash with the worker giving up at a file that does not decode: it
\* sends nothing and drops the rest of its batch
worker_hash_stops_on_failure(w) ==
    /\ pc = "multi"
    /\ \E u \in batch[w] :
          /\ IF outcome[u.path] = None
             THEN /\ chan' = chan
                  /\ batch' = [batch EXCEPT ![w] = {}]
             ELSE /\ chan' = Append(chan,
                               [index |-> u.index,
                                status |-> ImgStatus_hash(Unhashed(u.path),
                                                          cfg.settings, outcome)])
                  /\ batch' = [batch EXCEPT ![w] = @ \ {u}]
          /\ hashCount' = [hashCount EXCEPT ![u.index] = @ + 1]
    /\ UNCHANGED <<builder, outcome, pc, request, cfg, results, cursor, slots,
                   received, arrival, spawned, prev, clusterVars, searchVars>>

\* worker w takes a unit of its batch, hashes it and sends the status, tagged
\* with the unit's index, to the collector; a failure is a status like any
\* other and the worker goes on
worker_hash(w) ==
    /\ pc = "multi"
    /\ \E u \in batch[w] :
          /\ chan' = Append(chan,
                       [index |-> u.index,
                        status |-> ImgStatus_hash(Unhashed(u.path), cfg.settings,
                                                  outcome)])
          /\ batch' = [batch EXCEPT ![w] = @ \ {u}]
          /\ hashCount' = [hashCount EXCEPT ![u.index] = @ + 1]
    /\ UNCHANGED <<builder, outcome, pc, request, cfg, results, cursor, slots,
                   received, arrival, spawned, prev, clusterVars, searchVars>>

\* collector_recv filing each completion at the next free position
collector_recv_by_arrival ==
    /\ pc = "multi"
    /\ received < Len(slots)
    /\ chan # << >>
    /\ slots' = [slots EXCEPT ![received + 1] = Head(chan).status]
    /\ received' = received + 1
    /\ arrival' = Append(arrival, Head(chan).index)
    /\ chan' = Tail(chan)
    /\ UNCHANGED <<builder, outcome, pc, request, cfg, results, cursor, batch,
                   spawned, hashCount, prev, clusterVars, searchVars>>

\* the collector takes the oldest completion and files it under its index
collector_recv ==
    /\ pc = "multi"
    /\ received < Len(slots)
    /\ chan # << >>
    /\ slots' = [slots EXCEPT ![Head(chan).index] = Head(chan).status]
    /\ received' = received + 1
    /\ arrival' = Append(arrival, Head(chan).index)
    /\ chan' = Tail(chan)
    /\ UNCHANGED <<builder, outcome, pc, request, cfg, results, cursor, batch,
                   spawned, hashCount, prev, clusterVars, searchVars>>

\* collector_return as soon as the channel is found empty
collector_return_when_channel_empty ==
    /\ pc = "multi"
    /\ chan = << >>
    /\ results' = ImgResults_from_statuses(slots)
    /\ pc' = "done"
    /\ UNCHANGED <<builder, outcome, request, cfg, cursor, batch, chan, slots,
                   received, arrival, spawned, hashCount, prev, clusterVars, searchVars>>

\* the collector has taken one completion per unit: the ResultSet is the
\* buffer, in index order
collector_return ==
    /\ pc = "multi"
    /\ received = Len(slots)
    /\ results' = ImgResults_from_statuses(slots)
    /\ pc' = "done"
    /\ UNCHANGED <<builder, outcome, request, cfg, cursor, batch, chan, slots,
                   received, arrival, spawned, hashCount, prev, clusterVars, searchVars>>

(* ---------------- SessionBuilder::process_multithread ----------------- *)

\* process_multithread handing None over in place of its argument
process_multithread_drops_threads(threads) ==
    /\ request' = threads
    /\ LET rc == recombine(builder)
       IN  ThreadedSession_process_multithread(None, rc[1], rc[2])

\* lib.rs 169-172: recombine, then hand over to ThreadedSession
process_multithread(threads) ==
    /\ request' = threads
    /\ LET rc == recombine(builder)
       IN  ThreadedSession_process_multithread(threads, rc[1], rc[2])

(* ------------------------- the next session --------------------------- *)

\* a session consumes its builder; the caller builds another one over the
\* same path list and keeps what the finished session delivered
next_session ==
    /\ pc \in {"done", "panicked"}
    /\ prev' = IF pc = "done"
               THEN [mode |-> cfg.mode, workers |-> cfg.workers, results |-> results]
               ELSE prev
    /\ builder' = from_images(builder.images)
    /\ pc' = "idle"
    /\ request' = None
    /\ cfg' = NoCfg
    /\ results' = << >>
    /\ cursor' = 1
    /\ batch' = NoBatches
    /\ chan' = << >>
    /\ slots' = << >>
    /\ received' = 0
    /\ arrival' = << >>
    /\ spawned' = 0
    /\ hashCount' = ZeroCounts(Len(builder.images))
    /\ uniques' = None
    /\ UNCHANGED <<outcome, threshold, groups, added, finalized, searchVars>>

(* ----------------------- the hashing session -------------------------- *)

\* the input path list
InputPaths == builder.images

\* the entries of the delivered ResultSet with the given tag
Tagged(tag) == {i \in 1 .. Len(results) : results[i].tag = tag}

\* C1: when a session, local or multi-threaded, has completed, the
\* ResultSet has one entry per input path, and entry i carries input path i
\* and what the hasher gave for that path, however the completions were
\* interleaved.
C1_ResultSetInInputOrder ==
    pc = "done" =>
        /\ Len(results) = Len(InputPaths)
        /\ \A i \in 1 .. Len(InputPaths) :
              /\ results[i].path = InputPaths[i]
              /\ results[i].hash = outcome[InputPaths[i]]

\* a multi-threaded session of three paths has completed, the completion of
\* the last path having reached the collector first
C1_Witness ==
    /\ pc = "done"
    /\ cfg.workers >= 2
    /\ Len(results) = 3
    /\ arrival[1] = 3
    /\ Tagged("Hashed") # {}
    /\ Tagged("Failed") # {}

\* C2: two completed multi-threaded sessions over the same path list and
\* hasher outcomes, with 1, 2 or 8 threads each, deliver the same ResultSet.
C2_SameResultSetForThreadCounts ==
    ( /\ pc = "done"
      /\ cfg.mode = "multi"
      /\ prev.mode = "multi"
      /\ cfg.workers \in {1, 2, 8}
      /\ prev.workers \in {1, 2, 8} )
    => results = prev.results

\* a session with 8 threads has completed after one with 1 thread, over
\* three paths, its completions out of input order
C2_Witness ==
    /\ pc = "done"
    /\ cfg.workers = 8
    /\ prev.mode = "multi"
    /\ prev.workers = 1
    /\ Len(results) = 3
    /\ arrival = <<2, 3, 1>>
    /\ Tagged("Failed") = {2}

\* C3: when a session has completed, every entry of the ResultSet is Hashed
\* or Failed, none is Unhashed.
C3_NoUnhashedAfterCompletion ==
    pc = "done" =>
        \A i \in 1 .. Len(results) : results[i].tag \in {"Hashed", "Failed"}

\* a local session of at least two paths has completed
C3_Witness ==
    /\ pc = "done"
    /\ cfg.mode = "local"
    /\ Len(results) >= 2
    /\ Len(results) = Len(InputPaths)

\* C4: a session asked for with an explicit thread count of 0 panics, and
\* it has spawned no worker, queued no work and invoked the hasher for no
\* path.
C4_ZeroThreadsPanicsBeforeWork ==
    request = Some(0) =>
        /\ pc = "panicked"
        /\ spawned = 0
        /\ batch = NoBatches
        /\ chan = << >>
        /\ results = << >>
        /\ \A i \in DOMAIN hashCount : hashCount[i] = 0

\* process_multithread(Some(0)) has been called on a list of two paths or more
C4_Witness ==
    /\ request = Some(0)
    /\ pc = "panicked"
    /\ Len(InputPaths) >= 2

\* C5: a unit whose file does not decode gives Failed(path, reason) at its
\* index and changes nothing else: the session panics only before any unit
\* of work, a worker with units left can go on, and at completion every
\* entry is what the hasher gave for its own path.
C5_FailureIsOneFailedEntry ==
    /\ pc = "panicked" =>
          /\ cfg.workers = 0
          /\ \A i \in DOMAIN hashCount : hashCount[i] = 0
    /\ pc = "multi" =>
          \A w \in DOMAIN batch : batch[w] # {} => ENABLED worker_hash(w)
    /\ (pc = "local" /\ cursor <= Len(results)) => ENABLED process_local_hash
    /\ pc = "done" =>
          \A i \in 1 .. Len(InputPaths) :
              results[i] =
                  IF outcome[InputPaths[i]] = None
                  THEN Failed(InputPaths[i], DecodeFailure)
                  ELSE Hashed(Image(InputPaths[i], unwrap(outcome[InputPaths[i]])))

\* a session with a single worker has completed, the worker's first unit
\* having failed and its second having hashed
C5_Witness ==
    /\ pc = "done"
    /\ cfg.mode = "multi"
    /\ cfg.workers = 1
    /\ Len(arrival) >= 2
    /\ results[arrival[1]].tag = "Failed"
    /\ results[arrival[2]].tag = "Hashed"

\* C6: a completed local session and a completed multi-threaded session
\* over the same path list, settings and hasher outcomes deliver the same
\* ResultSet.
C6_LocalEqualsMultithread ==
    ( /\ pc = "done"
      /\ prev.mode # "none"
      /\ prev.mode # cfg.mode )
    => results = prev.results

\* a session with 2 threads has completed after a local one, over three
\* paths of which one fails
C6_Witness ==
    /\ pc = "done"
    /\ cfg.mode = "multi"
    /\ cfg.workers = 2
    /\ prev.mode = "local"
    /\ Len(results) = 3
    /\ Cardinality(Tagged("Failed")) = 1
    /\ arrival[1] # 1

(* ------------------ ImageManager (mod compare) ------------------------ *)

\* bit k of hash value h
Bit(h, k) == (h \div (2 ^ k)) % 2

\* the Hamming distance of two hash values
dist(a, b) == Cardinality({k \in 0 .. (HashBits - 1) : Bit(a, k) # Bit(b, k)})

\* a duplicate group: its representative and its members, the
\* representative first
Group(img) == [representative |-> img, members |-> <<img>>]

\* ImageManager::new
ImageManager_new(th) == [threshold |-> th, groups |-> << >>]

\* the groups, by position, whose representative is within the threshold
Matching(mgr, img) ==
    {g \in 1 .. Len(mgr.groups) :
        dist(img.hash, mgr.groups[g].representative.hash) <= mgr.threshold}

\* ImageManager_add with the closest matching group taken in place of the
\* first
ImageManager_add_best_match(mgr, img) ==
    IF Matching(mgr, img) = {}
    THEN [mgr EXCEPT !.groups = Append(@, Group(img))]
    ELSE LET best == CHOOSE g \in Matching(mgr, img) :
                        \A g2 \in Matching(mgr, img) :
                            dist(img.hash, mgr.groups[g].representative.hash)
                              <= dist(img.hash, mgr.groups[g2].representative.hash)
         IN  [mgr EXCEPT !.groups[best].members = Append(@, img)]

\* ImageManager_add measuring the image against every member of a group in
\* place of its representative
ImageManager_add_any_member(mgr, img) ==
    LET near == {g \in 1 .. Len(mgr.groups) :
                    \E k \in 1 .. Len(mgr.groups[g].members) :
                        dist(img.hash, mgr.groups[g].members[k].hash)
                          <= mgr.threshold}
    IN  IF near = {}
        THEN [mgr EXCEPT !.groups = Append(@, Group(img))]
        ELSE [mgr EXCEPT !.groups[Min(near)].members = Append(@, img)]

\* ImageManager::add: the image joins the first group, in creation order,
\* whose representative is within the threshold; with no such group it
\* starts a group of its own
ImageManager_add(mgr, img) ==
    IF Matching(mgr, img) = {}
    THEN [mgr EXCEPT !.groups = Append(@, Group(img))]
    ELSE [mgr EXCEPT !.groups[Min(Matching(mgr, img))].members = Append(@, img)]

\* ImageManager::add_all: add, image by image, in order
RECURSIVE ImageManager_add_all(_, _)
ImageManager_add_all(mgr, imgs) ==
    IF imgs = << >> THEN mgr
    ELSE ImageManager_add_all(ImageManager_add(mgr, Head(imgs)), Tail(imgs))

\* ImageManager::into_vec: the groups, in creation order
ImageManager_into_vec(mgr) == mgr.groups

(* --------------------------- find_uniques ----------------------------- *)

\* find_uniques building its engine with the default threshold
find_uniques_default_threshold(imgs, th) ==
    ImageManager_into_vec(
        ImageManager_add_all(ImageManager_new(DEFAULT_THRESHOLD), imgs))

\* find_uniques returning the engine's groups without add_all
find_uniques_without_add_all(imgs, th) ==
    ImageManager_into_vec(ImageManager_new(th))

\* find_uniques building its engine with the threshold raised by one
find_uniques_threshold_plus_one(imgs, th) ==
    ImageManager_into_vec(ImageManager_add_all(ImageManager_new(th + 1), imgs))

\* find_uniques adding to the groups of the engine at hand in place of a
\* fresh engine's
find_uniques_on_engine_at_hand(imgs, th) ==
    ImageManager_into_vec(
        ImageManager_add_all([threshold |-> th, groups |-> groups], imgs))

\* find_uniques returning the groups last created first
find_uniques_groups_reversed(imgs, th) ==
    LET gs == ImageManager_into_vec(
                  ImageManager_add_all(ImageManager_new(th), imgs))
    IN  [g \in 1 .. Len(gs) |-> gs[Len(gs) + 1 - g]]

\* lib.rs 199-203
find_uniques(imgs, th) ==
    ImageManager_into_vec(ImageManager_add_all(ImageManager_new(th), imgs))

(* ------------------- sessions, then clustering ------------------------ *)

\* the images of the Hashed entries of a ResultSet, in order
RECURSIVE HashedImages(_)
HashedImages(rs) ==
    IF rs = << >> THEN << >>
    ELSE IF Head(rs).tag = "Hashed"
         THEN <<Image(Head(rs).path, unwrap(Head(rs).hash))>> \o HashedImages(Tail(rs))
         ELSE HashedImages(Tail(rs))

\* the caller filters the delivered ResultSet down to its Hashed entries and
\* hands them to find_uniques
cluster_results ==
    /\ pc = "done"
    /\ uniques = None
    /\ uniques' = Some([images |-> HashedImages(results),
                        groups |-> find_uniques(HashedImages(results), threshold)])
    /\ UNCHANGED <<sessionVars, searchVars, threshold, groups, added, finalized>>

\* the workers of the running session
workers == \E w \in DOMAIN batch : worker_hash(w)

Next ==
    \/ process_local
    \/ \E t \in {None} \cup {Some(k) : k \in ThreadCounts} : process_multithread(t)
    \/ workers
    \/ collector_recv
    \/ collector_return
    \/ cluster_results
    \/ next_session

Spec == Init /\ [][Next]_vars

(* -------------------- one session, fairly scheduled ------------------- *)

\* a single session: the builder is consumed and nothing follows
NextOnce ==
    \/ process_local
    \/ \E t \in {None} \cup {Some(k) : k \in ThreadCounts} : process_multithread(t)
    \/ workers
    \/ collector_recv
    \/ collector_return

\* the calling thread of a local session keeps running; in a multi-threaded
\* session a worker with work left is scheduled, and so is the collector
Fairness ==
    /\ WF_vars(process_local_hash \/ process_local_return)
    /\ WF_vars(workers)
    /\ WF_vars(collector_recv)
    /\ WF_vars(collector_return)

SpecFair == Init /\ [][NextOnce]_vars /\ Fairness

(* ----------------------- the clustering engine ------------------------ *)

\* the thresholds engines are built with
Thresholds == {0, 1, DEFAULT_THRESHOLD}

\* the engine of the state
Mgr == [threshold |-> threshold, groups |-> groups]

\* the session variables of a module state in which no session runs
SessionOff ==
    /\ builder = from_images(<< >>)
    /\ outcome = << >>
    /\ pc = "off"
    /\ request = None
    /\ cfg = NoCfg
    /\ results = << >>
    /\ cursor = 1
    /\ batch = NoBatches
    /\ chan = << >>
    /\ slots = << >>
    /\ received = 0
    /\ arrival = << >>
    /\ spawned = 0
    /\ hashCount = << >>
    /\ prev = NoSession

\* a fresh engine
InitCluster ==
    /\ SessionOff
    /\ SearchIdle
    /\ threshold \in Thresholds
    /\ groups = ImageManager_new(threshold).groups
    /\ added = << >>
    /\ finalized = FALSE
    /\ uniques = None

\* the images that can be handed over next: hashed images of files not seen
\* before, k of them
NewImages(k) ==
    {s \in [1 .. k -> {Image(PathAt(Len(added) + i), h) :
                          i \in 1 .. k, h \in HashValues}] :
        \A i \in 1 .. k : s[i].path = PathAt(Len(added) + i)}

\* mgr.add(img)
add ==
    /\ pc = "off"
    /\ ~finalized
    /\ Len(added) < MaxImages
    /\ \E s \in NewImages(1) :
          /\ groups' = ImageManager_add(Mgr, s[1]).groups
          /\ added' = Append(added, s[1])
    /\ UNCHANGED <<sessionVars, searchVars, threshold, finalized, uniques>>

\* mgr.add_all(imgs), for two images
add_all ==
    /\ pc = "off"
    /\ ~finalized
    /\ Len(added) + 2 <= MaxImages
    /\ \E s \in NewImages(2) :
          /\ groups' = ImageManager_add_all(Mgr, s).groups
          /\ added' = added \o s
    /\ UNCHANGED <<sessionVars, searchVars, threshold, finalized, uniques>>

\* mgr.into_vec(): the engine is consumed
into_vec ==
    /\ pc = "off"
    /\ ~finalized
    /\ finalized' = TRUE
    /\ groups' = ImageManager_into_vec(Mgr)
    /\ UNCHANGED <<sessionVars, searchVars, threshold, added, uniques>>

\* find_uniques(images, threshold) over the images that were handed to the
\* engine, once the engine has been consumed
call_find_uniques ==
    /\ pc = "off"
    /\ finalized
    /\ uniques = None
    /\ uniques' = Some([images |-> added, groups |-> find_uniques(added, threshold)])
    /\ UNCHANGED <<sessionVars, searchVars, threshold, groups, added, finalized>>

NextCluster ==
    \/ add
    \/ add_all
    \/ into_vec
    \/ call_find_uniques

SpecCluster == InitCluster /\ [][NextCluster]_vars

(* ----------------------------- clustering ---------------------------- *)

\* the images of a sequence
Range(seq) == {seq[i] : i \in 1 .. Len(seq)}

\* the places <<group, position>> of the members of a sequence of groups
Places(gs) ==
    UNION {{<<g, k>> : k \in 1 .. Len(gs[g].members)} : g \in 1 .. Len(gs)}

\* C7 for one sequence of groups
WithinThreshold(gs, th) ==
    \A x \in Places(gs) :
        dist(gs[x[1]].members[x[2]].hash, gs[x[1]].representative.hash) <= th

\* C7: whatever was added, every member of every group is within the
\* threshold of its group's representative, in the engine and in what
\* find_uniques returns.
C7_MembersWithinThresholdOfRepresentative ==
    /\ WithinThreshold(groups, threshold)
    /\ uniques # None => WithinThreshold(unwrap(uniques).groups, threshold)

\* find_uniques has returned a group two members of which are further apart
\* than the threshold
C7_Witness ==
    /\ uniques # None
    /\ \E g \in 1 .. Len(unwrap(uniques).groups) :
          \E m1, m2 \in Range(unwrap(uniques).groups[g].members) :
              dist(m1.hash, m2.hash) > threshold

\* C8 for one sequence of groups and the images they were built from
Partitions(gs, imgs) ==
    /\ Cardinality(Places(gs)) = Len(imgs)
    /\ \A i \in 1 .. Len(imgs) :
          Cardinality({x \in Places(gs) : gs[x[1]].members[x[2]] = imgs[i]}) = 1
    /\ \A g \in 1 .. Len(gs) : gs[g].representative \in Range(gs[g].members)

\* C8: the groups partition the images added: every image added is a member
\* of exactly one group, once, and every member is an image added.
C8_GroupsPartitionAddedImages ==
    /\ Partitions(groups, added)
    /\ uniques # None => Partitions(unwrap(uniques).groups, unwrap(uniques).images)

\* three images have been added and form two groups, in the engine and in
\* what find_uniques returned
C8_Witness ==
    /\ Len(added) = 3
    /\ Len(groups) = 2
    /\ uniques # None
    /\ Len(unwrap(uniques).images) = 3
    /\ Len(unwrap(uniques).groups) = 2

\* C9 for one sequence of groups; images carry paths in the order added
FirstMatch(gs, th) ==
    \A g \in 1 .. Len(gs) :
        /\ gs[g].members[1] = gs[g].representative
        /\ \A g2 \in 1 .. (g - 1) :
              gs[g2].representative.path < gs[g].representative.path
        /\ \A k \in 1 .. Len(gs[g].members) :
              /\ k > 1 => gs[g].members[k - 1].path < gs[g].members[k].path
              /\ k > 1 => dist(gs[g].members[k].hash, gs[g].representative.hash) <= th
              /\ \A g2 \in 1 .. (g - 1) :
                    dist(gs[g].members[k].hash, gs[g2].representative.hash) > th

\* C9: an image is appended to the earliest-created group whose
\* representative is within the threshold, so no group created before its
\* own has a representative within the threshold; it starts a group exactly
\* when no representative is within the threshold.
C9_FirstMatchByCreationOrder ==
    /\ FirstMatch(groups, threshold)
    /\ uniques # None => FirstMatch(unwrap(uniques).groups, threshold)

\* an image has joined a group although a group created later, and before
\* the image was added, has a representative strictly closer to it
C9_Witness ==
    \E g \in 1 .. Len(groups) : \E g2 \in (g + 1) .. Len(groups) :
        \E k \in 2 .. Len(groups[g].members) :
            /\ groups[g2].representative.path < groups[g].members[k].path
            /\ dist(groups[g].members[k].hash, groups[g2].representative.hash)
                 < dist(groups[g].members[k].hash, groups[g].representative.hash)

\* two images are members of one group
SameGroup(gs, a, b) ==
    \E g \in 1 .. Len(gs) : {a, b} \subseteq Range(gs[g].members)

\* C10 for one sequence of groups and the images they were built from
GroupedByEqualHash(gs, imgs) ==
    \A a, b \in Range(imgs) : SameGroup(gs, a, b) <=> a.hash = b.hash

\* C10: with threshold 0, two images are in the same group exactly when
\* their hash values are equal.
C10_ThresholdZeroGroupsEqualHashes ==
    threshold = 0 =>
        /\ GroupedByEqualHash(groups, added)
        /\ uniques # None =>
              GroupedByEqualHash(unwrap(uniques).groups, unwrap(uniques).images)

\* with threshold 0, the first and third image have one hash value and
\* share a group, the second differs in one bit and has its own
C10_Witness ==
    /\ threshold = 0
    /\ Len(added) = 3
    /\ added[1].hash = added[3].hash
    /\ dist(added[1].hash, added[2].hash) = 1
    /\ SameGroup(groups, added[1], added[3])
    /\ ~SameGroup(groups, added[1], added[2])
    /\ uniques # None
    /\ unwrap(uniques).groups = groups

(* ---------------------------- ImageSearch ----------------------------- *)

\* lib.rs 39
DEFAULT_EXTS == <<"jpg", "png", "gif">>

\* most entries of one level of the directory searched
MaxEntries == 2

\* most extensions pushed onto an ImageSearch
MaxPushed == 1

\* the extensions callers push
PushedExts == {"bmp"}

\* what iterating a directory yields for one entry: an I/O error (None), or
\* an entry whose path has no extension or one of two extensions
EntryKinds == {None} \cup {Some([ext |-> e]) : e \in {None, Some("jpg"), Some("bmp")}}

\* the sequences of at most n directory entries
Entries(n) == UNION {[1 .. k -> EntryKinds] : k \in 0 .. n}

\* entry.path(): the path of the i-th entry the iteration yields
PathOfEntry(i, entry) == [at |-> i, ext |-> unwrap(entry).ext]

\* ImageSearch::with_dir (lib.rs 55-61)
with_dir == [recursive |-> FALSE, exts |-> DEFAULT_EXTS]

\* do_filter (lib.rs 90-100): the entries that are errors are dropped, the
\* others give their paths, and the paths with an extension of exts are kept
do_filter(iter, exts) ==
    LET ok    == {i \in 1 .. Len(iter) : iter[i] # None}
        paths == [i \in 1 .. Len(iter) |->
                    IF i \in ok THEN PathOfEntry(i, iter[i])
                    ELSE [at |-> i, ext |-> None]]
        kept  == {i \in ok :
                    /\ paths[i].ext # None
                    /\ \E k \in 1 .. Len(exts) : exts[k] = unwrap(paths[i].ext)}
    IN  [k \in 1 .. Cardinality(kept) |->
            paths[CHOOSE i \in kept : Cardinality({j \in kept : j <= i}) = k]]

\* fs::read_dir(dir): the io::Result of opening the directory, None for Err
read_dir(dir) == IF dir.readable THEN Some(dir.top) ELSE None

\* fs::walk_dir(dir): as read_dir, with the entries below following
walk_dir(dir) == IF dir.readable THEN Some(dir.top \o dir.deep) ELSE None

\* ImageSearch::search (lib.rs 88-109): try! hands the Err of read_dir or
\* walk_dir to the caller; otherwise Ok(paths)
ImageSearch_search(self, dir) ==
    LET iter == IF self.recursive THEN walk_dir(dir) ELSE read_dir(dir)
    IN  IF iter = None
        THEN [tag |-> "Err", paths |-> << >>]
        ELSE [tag |-> "Ok",
              paths |-> do_filter(unwrap(iter), self.exts)]

\* no session and no engine; a directory and ImageSearch::with_dir on it
InitSearch ==
    /\ SessionOff
    /\ ClusterIdle
    /\ \E r \in BOOLEAN, t \in Entries(MaxEntries), d \in Entries(MaxEntries) :
          fs = [readable |-> r, top |-> t, deep |-> d]
    /\ search = with_dir
    /\ found = None

\* ImageSearch::recursive (lib.rs 63-66)
recursive ==
    /\ pc = "off"
    /\ found = None
    /\ \E b \in BOOLEAN : search' = [search EXCEPT !.recursive = b]
    /\ UNCHANGED <<sessionVars, clusterVars, fs, found>>

\* ImageSearch::ext (lib.rs 70-73)
ext ==
    /\ pc = "off"
    /\ found = None
    /\ Len(search.exts) < Len(DEFAULT_EXTS) + MaxPushed
    /\ \E e \in PushedExts : search' = [search EXCEPT !.exts = Append(@, e)]
    /\ UNCHANGED <<sessionVars, clusterVars, fs, found>>

\* ImageSearch::search consumes the search
call_search ==
    /\ pc = "off"
    /\ found = None
    /\ found' = Some(ImageSearch_search(search, fs))
    /\ UNCHANGED <<sessionVars, clusterVars, fs, search>>

NextSearch ==
    \/ recursive
    \/ ext
    \/ call_search

SpecSearch == InitSearch /\ [][NextSearch]_vars

\* C16: no filesystem failure during the search reaches the caller as an
\* error: search returns a path list, the failed entries left out.
C16_SearchNeverSurfacesIoError ==
    found # None => unwrap(found).tag = "Ok"

(* ----------------------- clustering, continued ------------------------ *)

\* three images have been added, the first and the second within the
\* threshold, the second and the third within it, the first and the third not
Intransitive ==
    /\ Len(added) = 3
    /\ dist(added[1].hash, added[2].hash) <= threshold
    /\ dist(added[2].hash, added[3].hash) <= threshold
    /\ dist(added[1].hash, added[3].hash) > threshold

\* the groups a sequence <<a, b, c>> gives when b joins a and c does not
Anchored(a, b, c) ==
    <<[representative |-> a, members |-> <<a, b>>],
      [representative |-> c, members |-> <<c>>]>>

\* C11 as stated: with A, B, C as in Intransitive, the order <<A, B, C>>
\* gives a single group anchored at A holding B and C, and the order
\* <<C, B, A>> a single group anchored at C.
C11_SingleGroupEitherOrder ==
    Intransitive =>
        /\ Len(groups) = 1
        /\ groups[1].representative = added[1]
        /\ {added[2], added[3]} \subseteq Range(groups[1].members)
        /\ LET back == find_uniques(<<added[3], added[2], added[1]>>, threshold)
           IN  /\ Len(back) = 1
               /\ back[1].representative = added[3]

\* C11 as amended: the order <<A, B, C>> gives two groups, A with B and C
\* alone, and the order <<C, B, A>> gives two groups, C with B and A alone.
C11_TwoGroupsEitherOrder ==
    Intransitive =>
        /\ groups = Anchored(added[1], added[2], added[3])
        /\ find_uniques(added, threshold) = groups
        /\ find_uniques(<<added[3], added[2], added[1]>>, threshold)
             = Anchored(added[3], added[2], added[1])

\* such images A, B, C have been added and the engine consumed
C11_Witness ==
    /\ Intransitive
    /\ finalized
    /\ Len(groups) = 2

\* the position of an image in a sequence of images of distinct files
Pos(imgs, img) == CHOOSE i \in 1 .. Len(imgs) : imgs[i] = img

\* the groups are listed in the order their representatives stand in the
\* sequence of images
InCreationOrder(gs, imgs) ==
    /\ \A g \in 1 .. Len(gs) : gs[g].representative \in Range(imgs)
    /\ \A g, h \in 1 .. Len(gs) :
          g < h => Pos(imgs, gs[g].representative) < Pos(imgs, gs[h].representative)

\* C14: every step of an engine, an add to an early group and the
\* finalization included, keeps each existing group at its position and
\* leaves the groups listed in the order their representatives stand in the
\* sequence of images added; the groups find_uniques returns are listed in
\* the order their representatives stand in its input.
C14_GroupsInCreationOrder ==
    [][ /\ Len(groups') >= Len(groups)
        /\ \A g \in 1 .. Len(groups) :
              groups'[g].representative = groups[g].representative
        /\ InCreationOrder(groups', added')
        /\ uniques' # None =>
              InCreationOrder(unwrap(uniques').groups, unwrap(uniques').images)
      ]_vars

\* the third image has joined the first group after the second image had
\* started the second group, the engine has been finalized and find_uniques
\* called
C14_Witness ==
    /\ finalized
    /\ uniques # None
    /\ Len(added) = 3
    /\ Len(groups) = 2
    /\ groups[1].members = <<added[1], added[3]>>
    /\ groups[2].representative = added[2]
    /\ Len(unwrap(uniques).groups) = 2

\* the groups of an engine built afresh and given the images one add at a
\* time
RECURSIVE AddEach(_, _)
AddEach(mgr, imgs) ==
    IF imgs = << >> THEN mgr
    ELSE AddEach(ImageManager_add(mgr, Head(imgs)), Tail(imgs))

\* C15: what find_uniques(images, threshold) returns is what a fresh engine
\* with that threshold holds after add has been applied to each image in
\* order and the engine finalized, whatever engine was driven and consumed
\* before the call and in whatever steps (add or add_all) it was driven.
C15_FindUniquesIsFreshEngine ==
    uniques # None =>
        /\ unwrap(uniques).groups
              = ImageManager_into_vec(
                    AddEach(ImageManager_new(threshold), unwrap(uniques).images))
        /\ finalized
        /\ unwrap(uniques).groups = groups

\* find_uniques has been called after an engine that was given three images,
\* by one add and one add_all, was consumed, and has returned two groups
C15_Witness ==
    /\ uniques # None
    /\ finalized
    /\ threshold # DEFAULT_THRESHOLD
    /\ Len(unwrap(uniques).images) = 3
    /\ Len(unwrap(uniques).groups) = 2
    /\ Len(unwrap(uniques).groups[1].members) = 2

\* the groups, by position, whose representative is within the threshold of
\* the image
NearRepresentative(img) ==
    {g \in 1 .. Len(groups) :
        dist(img.hash, groups[g].representative.hash) <= threshold}

\* C20: in every step of an engine each existing group keeps its
\* representative, which is the first of its members, and keeps its members
\* as a prefix of its new ones; an add of one image changes one group at
\* most, by appending the image, or else starts a group with the image as
\* its representative; and which of the two, and which group, is decided by
\* the distances of the image to the representatives alone.
C20_RepresentativeFixedAndDecisive ==
    [][ /\ Len(groups') >= Len(groups)
        /\ \A g \in 1 .. Len(groups') :
              groups'[g].representative = groups'[g].members[1]
        /\ \A g \in 1 .. Len(groups) :
              /\ groups'[g].representative = groups[g].representative
              /\ Len(groups'[g].members) >= Len(groups[g].members)
              /\ \A k \in 1 .. Len(groups[g].members) :
                    groups'[g].members[k] = groups[g].members[k]
        /\ Len(added') = Len(added) + 1 =>
              LET img == added'[Len(added')]
                  near == NearRepresentative(img)
              IN  IF near = {}
                  THEN groups' = Append(groups, Group(img))
                  ELSE /\ Len(groups') = Len(groups)
                       /\ \A g \in 1 .. Len(groups) :
                             groups'[g].members =
                                 IF g = Min(near)
                                 THEN Append(groups[g].members, img)
                                 ELSE groups[g].members
      ]_vars

\* a third image within the threshold of the second member of the first
\* group, and not of its representative, has started the second group
C20_Witness ==
    /\ ~finalized
    /\ Len(added) = 3
    /\ Len(groups) = 2
    /\ groups[1].members = <<added[1], added[2]>>
    /\ groups[2].members = <<added[3]>>
    /\ dist(added[2].hash, added[3].hash) <= threshold
    /\ dist(added[1].hash, added[3].hash) > threshold

(* ------------------- sessions, then clustering: claims ---------------- *)

\* three paths, the second of which does not decode while the first and the
\* third hash to values within the threshold of each other
FirstAndThirdAlike ==
    /\ Len(InputPaths) = 3
    /\ outcome[InputPaths[2]] = None
    /\ outcome[InputPaths[1]] # None
    /\ outcome[InputPaths[3]] # None
    /\ dist(unwrap(outcome[InputPaths[1]]), unwrap(outcome[InputPaths[3]]))
          <= threshold

\* C12: a multi-threaded session with 2 threads over three paths, of which
\* the first and the third hash to values within threshold 2 of each other
\* and the second does not decode, delivers three entries with exactly one
\* Failed, the second; clustering the Hashed entries at threshold 2 gives
\* exactly one group, whose members are the first and the third path.
C12_TwoAlikeOneFailed ==
    ( /\ pc = "done"
      /\ cfg.mode = "multi"
      /\ cfg.workers = 2
      /\ FirstAndThirdAlike )
    => /\ threshold = 2
       /\ Len(results) = 3
       /\ Tagged("Failed") = {2}
       /\ Tagged("Hashed") = {1, 3}
       /\ uniques # None =>
             /\ Len(unwrap(uniques).groups) = 1
             /\ [i \in 1 .. 2 |-> unwrap(uniques).groups[1].members[i].path]
                   = <<InputPaths[1], InputPaths[3]>>
             /\ Len(unwrap(uniques).groups[1].members) = 2

\* such a session has completed, its third path having been hashed before
\* its first, and its Hashed entries have been clustered
C12_Witness ==
    /\ pc = "done"
    /\ cfg.mode = "multi"
    /\ cfg.workers = 2
    /\ FirstAndThirdAlike
    /\ arrival[1] = 3
    /\ uniques # None
    /\ Len(unwrap(uniques).groups) = 1

\* C13: over an empty path list no session fails other than by a resolved
\* thread count of 0; the local session and the multi-threaded session with
\* any thread count >= 1 can return at once, the collector having nothing to
\* wait for; the delivered ResultSet is empty, and clustering it gives no
\* group.
C13_EmptyListEmptyResults ==
    Len(InputPaths) = 0 =>
        /\ pc = "panicked" => (cfg.mode = "multi" /\ cfg.workers = 0)
        /\ pc = "local" => ENABLED process_local_return
        /\ pc = "multi" =>
              /\ cfg.workers >= 1
              /\ received = 0
              /\ chan = << >>
              /\ ~ ENABLED collector_recv
              /\ ENABLED collector_return
        /\ pc = "done" =>
              /\ results = << >>
              /\ arrival = << >>
        /\ uniques # None =>
              /\ unwrap(uniques).images = << >>
              /\ unwrap(uniques).groups = << >>

\* a session with 8 threads over the empty list has completed after a local
\* one over the same list, and its ResultSet has been clustered
C13_Witness ==
    /\ Len(InputPaths) = 0
    /\ pc = "done"
    /\ cfg.mode = "multi"
    /\ cfg.workers = 8
    /\ prev.mode = "local"
    /\ prev.results = << >>
    /\ results = << >>
    /\ uniques # None
    /\ unwrap(uniques).groups = << >>

(* ------------------- the collector and the workers -------------------- *)

\* the indices of the units no worker has hashed yet
Outstanding == UNION {{u.index : u \in batch[w]} : w \in DOMAIN batch}

\* the indices of the completions sent and not yet received
InFlight == {chan[k].index : k \in 1 .. Len(chan)}

\* C17: in a multi-threaded session every index 1..N is at every moment
\* either outstanding, in the channel or received, and in one of the three
\* only, once; the collector can return, and has returned, only with N
\* completions received, one per index, no unit outstanding and the channel
\* empty.
C17_CollectorWaitsForAllCompletions ==
    (cfg.mode = "multi" /\ pc \in {"multi", "done"}) =>
        LET N == Len(InputPaths)
        IN  /\ received = Len(arrival)
            /\ Cardinality(Range(arrival)) = Len(arrival)
            /\ Cardinality(InFlight) = Len(chan)
            /\ Range(arrival) \cap InFlight = {}
            /\ Outstanding \cap (Range(arrival) \cup InFlight) = {}
            /\ Outstanding \cup Range(arrival) \cup InFlight = 1 .. N
            /\ (pc = "done" \/ ENABLED collector_return) =>
                  /\ received = N
                  /\ Range(arrival) = 1 .. N
                  /\ Outstanding = {}
                  /\ chan = << >>
            /\ pc = "done" => Len(results) = N

\* a session with 2 threads over three paths has completed, the completions
\* having come in the order 3, 1, 2
C17_Witness ==
    /\ pc = "done"
    /\ cfg.mode = "multi"
    /\ cfg.workers = 2
    /\ Len(InputPaths) = 3
    /\ received = 3
    /\ arrival = <<3, 1, 2>>

\* C18: under fair scheduling a started session, local or multi-threaded
\* with a resolved thread count >= 1, leads to a completed one that has
\* delivered a ResultSet with an entry for every path, whatever the length
\* of the list, the number of workers and the files that fail.
C18_StartedSessionCompletes ==
    (pc \in {"local", "multi"})
        ~> (pc = "done" /\ Len(results) = Len(InputPaths))

\* a session with 8 threads over two paths, neither of which decodes, has
\* completed
C18_Witness ==
    /\ pc = "done"
    /\ cfg.mode = "multi"
    /\ cfg.workers = 8
    /\ Len(InputPaths) = 2
    /\ Tagged("Failed") = {1, 2}

\* the status of input path i in a running or completed session: the entry
\* of the list in a local session; in a multi-threaded one the status the
\* worker has sent, in the channel or filed by the collector, and Unhashed
\* while the unit is outstanding
StatusOf(i) ==
    IF pc = "multi"
    THEN IF i \in InFlight
         THEN chan[CHOOSE k \in 1 .. Len(chan) : chan[k].index = i].status
         ELSE IF i \in Range(arrival) THEN slots[i]
         ELSE Unhashed(InputPaths[i])
    ELSE results[i]

\* the workers whose batch holds the unit of index i
HoldersOf(i) == {w \in DOMAIN batch : i \in {u.index : u \in batch[w]}}

\* C19: in every step of a running session, for every input path: a status
\* changes only from Unhashed, only to Hashed or Failed and only in the step
\* that hashes the path; the path is hashed at most once, by the one worker
\* that holds its unit; a Hashed or Failed status is kept as it is; and when
\* the session completes every path has been hashed exactly once.
C19_StatusChangesExactlyOnce ==
    [][ (pc \in {"local", "multi"} /\ pc' \in {"local", "multi", "done"}) =>
          \A i \in 1 .. Len(InputPaths) :
              /\ StatusOf(i).tag # "Unhashed" => StatusOf(i)' = StatusOf(i)
              /\ StatusOf(i)' # StatusOf(i) =>
                    /\ StatusOf(i).tag = "Unhashed"
                    /\ StatusOf(i)'.tag \in {"Hashed", "Failed"}
                    /\ StatusOf(i)'.path = InputPaths[i]
              /\ hashCount'[i] \in {hashCount[i], hashCount[i] + 1}
              /\ (hashCount'[i] = hashCount[i] + 1) <=> (StatusOf(i)' # StatusOf(i))
              /\ hashCount'[i] = (IF StatusOf(i)'.tag = "Unhashed" THEN 0 ELSE 1)
              /\ pc = "multi" =>
                    Cardinality(HoldersOf(i)) = (IF hashCount[i] = 0 THEN 1 ELSE 0)
              /\ pc' = "done" => hashCount'[i] = 1
      ]_vars

\* a session with 2 threads over three paths has completed, each path hashed
\* once, one of them Failed and the others Hashed
C19_Witness ==
    /\ pc = "done"
    /\ cfg.mode = "multi"
    /\ cfg.workers = 2
    /\ Len(InputPaths) = 3
    /\ \A i \in 1 .. 3 : hashCount[i] = 1
    /\ Cardinality(Tagged("Failed")) = 1
    /\ Cardinality(Tagged("Hashed")) = 2

=============================================================================
